---- MODULE Spec2Model ----
(***************************************************************************)
(* Model of src/src/lib.rs (oz-merkle-rs): MerkleTree::new, get_root,      *)
(* get_proof, verify_proof, leaves_length, hash_node, next_layer and       *)
(* hash_pair.                                                              *)
(*                                                                         *)
(* Keccak-256 is a library function.  It is modelled symbolically and      *)
(* collision-free: a hash value is the record [pre |-> p] of its preimage  *)
(* p, so two hashes are equal exactly when their preimages are.  The       *)
(* preimage of a leaf is <<index, account, amount>> (the three fixed-width *)
(* fields hash_node concatenates) and the preimage of an internal node is  *)
(* <<lo, hi>> (the two 32-byte hashes hash_pair concatenates).  The byte   *)
(* order of H256 is modelled by HashLess, a total order that is unrelated  *)
(* to the structure of the preimage (a digest first, the preimage as the   *)
(* tie-break).                                                             *)
(***************************************************************************)
EXTENDS Integers, Sequences, FiniteSets, TLC

\* Bounds of the model.
MaxLen == 3
NumRecords == 2

\* The (account, amount) records the inputs are drawn from: (1,1), (2,1),
\* (1,2), (2,2), ...
Records == {<<1 + (k % 2), 1 + (k \div 2)>> : k \in 0..(NumRecords - 1)}
Inputs == UNION {[1..n -> Records] : n \in 0..MaxLen}

\* Option<T>: None is the empty sequence, Some(x) the one-element sequence.
None == <<>>
Some(x) == <<x>>
IsSome(o) == Len(o) = 1
Unwrap(o) == o[1]

Range(s) == {s[i] : i \in 1..Len(s)}

\* ------------------------------------------------------------------------
\* Keccak-256 and the order of H256
\* ------------------------------------------------------------------------
keccak256(bytes) == [pre |-> bytes]

RECURSIVE Digest(_)
Digest(h) ==
    LET p == h.pre
    IN  IF Len(p) = 3
        THEN (p[1] * 5 + p[2] * 3 + p[3] * 7) % 11
        ELSE (Digest(p[1]) * 3 + Digest(p[2]) * 5 + 1) % 11

RECURSIVE PreLess(_, _)
PreLess(a, b) ==
    LET p == a.pre
        q == b.pre
    IN  IF Len(p) # Len(q) THEN Len(p) > Len(q)
        ELSE IF Len(p) = 3
        THEN \/ p[1] < q[1]
             \/ p[1] = q[1] /\ p[2] < q[2]
             \/ p[1] = q[1] /\ p[2] = q[2] /\ p[3] < q[3]
        ELSE \/ PreLess(p[1], q[1])
             \/ p[1] = q[1] /\ PreLess(p[2], q[2])

\* a < b on H256
HashLess(a, b) ==
    \/ Digest(a) < Digest(b)
    \/ Digest(a) = Digest(b) /\ PreLess(a, b)

\* ------------------------------------------------------------------------
\* Vec::sort and Vec::dedup
\* ------------------------------------------------------------------------
RECURSIVE Insert(_, _)
Insert(s, x) ==
    IF s = <<>> THEN <<x>>
    ELSE IF HashLess(x, Head(s)) THEN <<x>> \o s
    ELSE <<Head(s)>> \o Insert(Tail(s), x)

RECURSIVE SortedOf(_)
SortedOf(s) == IF s = <<>> THEN <<>> ELSE Insert(SortedOf(Tail(s)), Head(s))

\* the mutant: the sort is left out
sort_skipped(s) == s

sort(s) == SortedOf(s)

RECURSIVE DedupOf(_)
DedupOf(s) ==
    IF Len(s) <= 1 THEN s
    ELSE IF s[1] = s[2] THEN DedupOf(Tail(s))
    ELSE <<s[1]>> \o DedupOf(Tail(s))

\* the mutant: the dedup is left out
dedup_skipped(s) == s

dedup(s) == DedupOf(s)

\* ------------------------------------------------------------------------
\* hash_node, hash_pair, next_layer
\* ------------------------------------------------------------------------
hash_node(index, leaf_data) ==
    keccak256(<<index, leaf_data[1], leaf_data[2]>>)

\* pairs.sort() puts the smaller hash first
hash_pair(a, b) ==
    LET pairs == IF HashLess(b, a) THEN <<b, a>> ELSE <<a, b>>
    IN  keccak256(<<pairs[1], pairs[2]>>)

\* the mutant: the odd last element is hashed with itself, as the comment
\* in next_layer says
next_layer_selfhash(elems) ==
    [j \in 1..((Len(elems) + 1) \div 2) |->
        IF 2 * j <= Len(elems)
        THEN hash_pair(elems[2 * j - 1], elems[2 * j])
        ELSE hash_pair(elems[2 * j - 1], elems[2 * j - 1])]

\* chunks(2): chunk j holds elements 2j-1 and 2j (1-based), the last chunk
\* only 2j-1 when the length is odd
next_layer(elems) ==
    [j \in 1..((Len(elems) + 1) \div 2) |->
        IF 2 * j <= Len(elems)
        THEN hash_pair(elems[2 * j - 1], elems[2 * j])
        ELSE elems[2 * j - 1]]

\* ------------------------------------------------------------------------
\* MerkleTree::new
\* ------------------------------------------------------------------------
\* data.iter().enumerate().map(|(index, x)| hash_node(index, *x))
leaf_hashes(d) == [i \in 1..Len(d) |-> hash_node(i - 1, d[i])]

\* the mutant: the loop stops one layer early
RECURSIVE build_layers_short(_)
build_layers_short(ls) ==
    IF Len(ls[Len(ls)]) > 2
    THEN build_layers_short(Append(ls, next_layer(ls[Len(ls)])))
    ELSE ls

\* while layers.last().unwrap().len() > 1 { layers.push(next_layer(..)) }
RECURSIVE build_layers(_)
build_layers(ls) ==
    IF Len(ls[Len(ls)]) > 1
    THEN build_layers(Append(ls, next_layer(ls[Len(ls)])))
    ELSE ls

\* the part of new after the leaves are hashed
from_hashes(hs) ==
    LET els == dedup(sort(hs))
    IN  [elements |-> els, layers |-> build_layers(<<els>>), leaves |-> Len(els)]

new(d) == from_hashes(leaf_hashes(d))

\* ------------------------------------------------------------------------
\* get_root, get_proof, verify_proof
\* ------------------------------------------------------------------------
\* the mutant: the first layer is read instead of the last
get_root_first(ls) ==
    IF Len(ls) = 0 THEN None
    ELSE IF Len(ls[1]) = 0 THEN None
    ELSE Some(ls[1][1])

\* self.layers.last().and_then(|last_layer| last_layer.first().cloned())
get_root(ls) ==
    IF Len(ls) = 0 THEN None
    ELSE IF Len(ls[Len(ls)]) = 0 THEN None
    ELSE Some(ls[Len(ls)][1])

\* the mutant: an absent element is given position 0
position_or_zero(els, element) ==
    IF \E i \in 1..Len(els) : els[i] = element
    THEN Some((CHOOSE i \in 1..Len(els) :
                  /\ els[i] = element
                  /\ \A k \in 1..(i - 1) : els[k] # element) - 1)
    ELSE Some(0)

\* self.elements.iter().position(|&e| e == element): the 0-based index of
\* the first equal element
position(els, element) ==
    IF \E i \in 1..Len(els) : els[i] = element
    THEN Some((CHOOSE i \in 1..Len(els) :
                  /\ els[i] = element
                  /\ \A k \in 1..(i - 1) : els[k] # element) - 1)
    ELSE None

\* the mutant: the odd case is forgotten
pair_index_right(index) == index + 1

\* the mutant: the odd case does not step left
pair_index_same(index) == IF index % 2 = 0 THEN index + 1 ELSE index

pair_index(index) == IF index % 2 = 0 THEN index + 1 ELSE index - 1

\* the mutant: a node without a sibling pushes itself
push_sibling_self(proof, layer, pidx) ==
    IF pidx < Len(layer) THEN Append(proof, layer[pidx + 1])
    ELSE Append(proof, layer[Len(layer)])

\* if pair_index < layer.len() { proof.push(layer[pair_index]); }
push_sibling(proof, layer, pidx) ==
    IF pidx < Len(layer) THEN Append(proof, layer[pidx + 1]) ELSE proof

\* for layer in &self.layers[..self.layers.len() - 1] { ... index /= 2 }
RECURSIVE proof_loop(_, _, _, _)
proof_loop(ls, k, index, proof) ==
    IF k > Len(ls) - 1 THEN proof
    ELSE proof_loop(ls, k + 1, index \div 2,
                    push_sibling(proof, ls[k], pair_index(index)))

get_proof(ls, els, element) ==
    LET pos == position(els, element)
    IN  IF IsSome(pos) THEN Some(proof_loop(ls, 1, Unwrap(pos), <<>>))
        ELSE None

\* self.layers.len() - 1 underflows on an empty stack, once the element
\* is found
get_proof_panics(ls, els, element) ==
    IsSome(position(els, element)) /\ Len(ls) = 0

RECURSIVE verify_fold(_, _)
verify_fold(computed_hash, proof) ==
    IF proof = <<>> THEN computed_hash
    ELSE verify_fold(IF HashLess(computed_hash, Head(proof))
                     THEN hash_pair(computed_hash, Head(proof))
                     ELSE hash_pair(Head(proof), computed_hash),
                     Tail(proof))

verify_proof(element, proof, root) == verify_fold(element, proof) = root

\* ------------------------------------------------------------------------
\* State: the input, the fields of MerkleTree, the last call and its result
\* ------------------------------------------------------------------------
VARIABLES data, elements, layers, leaves, call, ret, panicked

vars == <<data, elements, layers, leaves, call, ret, panicked>>
tree == <<data, elements, layers, leaves>>

Root == get_root(layers)
Leaves == Range(elements)
Nodes == UNION {Range(layers[k]) : k \in 1..Len(layers)}
ProofOf(e) == Unwrap(get_proof(layers, elements, e))

\* the hashes the callers pass
AllLeafHashes == {hash_node(i, r) : i \in 0..(MaxLen - 1), r \in Records}
Cand == Nodes \cup {hash_node(0, <<1, 1>>), hash_node(MaxLen, <<1, 1>>)}
Substitutions(p) == {[p EXCEPT ![i] = h] : i \in 1..Len(p), h \in Cand}
Reorderings(p) == {[i \in 1..Len(p) |-> p[f[i]]] : f \in Permutations(1..Len(p))}
Suffixes(p) == {SubSeq(p, k, Len(p)) : k \in 1..(Len(p) + 1)}
ProofInputs ==
    UNION {Substitutions(ProofOf(e)) \cup Reorderings(ProofOf(e))
               \cup Suffixes(ProofOf(e)) : e \in Leaves}
      \cup {<<>>} \cup {<<h>> : h \in Cand}
RootInputs == IF IsSome(Root) THEN {Unwrap(Root)} ELSE {hash_node(MaxLen, <<1, 1>>)}

Init ==
    \E d \in Inputs :
        /\ data = d
        /\ elements = new(d).elements
        /\ layers = new(d).layers
        /\ leaves = new(d).leaves
        /\ call = [op |-> "idle"]
        /\ ret = None
        /\ panicked = FALSE

\* The caller is synchronous: a call is made when the previous one has
\* returned.
Idle == call.op = "idle"

Return ==
    /\ ~Idle
    /\ call' = [op |-> "idle"]
    /\ ret' = None
    /\ panicked' = FALSE
    /\ UNCHANGED tree

GetRoot ==
    /\ Idle
    /\ call' = [op |-> "get_root"]
    /\ ret' = get_root(layers)
    /\ panicked' = FALSE
    /\ UNCHANGED tree

GetProof(element) ==
    /\ Idle
    /\ call' = [op |-> "get_proof", element |-> element]
    /\ panicked' = get_proof_panics(layers, elements, element)
    /\ ret' = IF panicked' THEN None ELSE get_proof(layers, elements, element)
    /\ UNCHANGED tree

VerifyProof(element, proof, root) ==
    /\ Idle
    /\ call' = [op |-> "verify_proof", element |-> element,
                proof |-> proof, root |-> root]
    /\ ret' = verify_proof(element, proof, root)
    /\ panicked' = FALSE
    /\ UNCHANGED tree

LeavesLength ==
    /\ Idle
    /\ call' = [op |-> "leaves_length"]
    /\ ret' = leaves
    /\ panicked' = FALSE
    /\ UNCHANGED tree

HashNode(index, leaf_data) ==
    /\ Idle
    /\ call' = [op |-> "hash_node", index |-> index, leaf_data |-> leaf_data]
    /\ ret' = hash_node(index, leaf_data)
    /\ panicked' = FALSE
    /\ UNCHANGED tree

Next ==
    \/ GetRoot
    \/ \E e \in AllLeafHashes \cup Nodes : GetProof(e)
    \/ \E e \in Cand, p \in ProofInputs, r \in RootInputs : VerifyProof(e, p, r)
    \/ LeavesLength
    \/ \E i \in 0..MaxLen, r \in Records : HashNode(i, r)
    \/ Return

Spec == Init /\ [][Next]_vars

\* ------------------------------------------------------------------------
\* Properties
\* ------------------------------------------------------------------------
IsPermutationOf(p, q) ==
    /\ Len(p) = Len(q)
    /\ \E f \in Permutations(1..Len(q)) : p = [i \in 1..Len(q) |-> q[f[i]]]

DiffersInOnePlace(p, q) ==
    /\ Len(p) = Len(q)
    /\ Cardinality({i \in 1..Len(q) : p[i] # q[i]}) = 1

\* C1: round trip.  For a non-empty input, every hash of the leaf set has
\* a proof, and the proof verifies against the root; a verify_proof call on
\* a leaf, its proof and the root returns true.
C1_RoundTrip ==
    Len(data) > 0 =>
        /\ IsSome(Root)
        /\ call.op = "idle" =>
              \A e \in Leaves :
                  /\ IsSome(get_proof(layers, elements, e))
                  /\ verify_proof(e, ProofOf(e), Unwrap(Root))
        /\ (/\ call.op = "verify_proof"
            /\ call.element \in Leaves
            /\ call.proof = ProofOf(call.element)
            /\ call.root = Unwrap(Root)) => ret = TRUE

\* a leaf that was promoted unhashed (the third of three) verifies
C1_Witness ==
    /\ call.op = "verify_proof"
    /\ Len(elements) = 3
    /\ call.element = elements[3]
    /\ call.proof = ProofOf(elements[3])
    /\ call.root = Unwrap(Root)
    /\ ret = TRUE

\* C2: get_proof of a hash that is not in the leaf set returns None and
\* does not panic, the tree of the empty input included.
C2_AbsentGivesNone ==
    /\ call.op = "idle" =>
          \A h \in (AllLeafHashes \cup Nodes) \ Leaves :
              /\ get_proof(layers, elements, h) = None
              /\ ~get_proof_panics(layers, elements, h)
    /\ (call.op = "get_proof" /\ call.element \notin Leaves) =>
          (ret = None /\ ~panicked)

\* get_proof on the tree of the empty input
C2_Witness ==
    /\ call.op = "get_proof"
    /\ data = <<>>
    /\ call.element \notin Leaves
    /\ ret = None

\* C3 as stated: the root is the same for every permutation of the input
\* records.
C3_RootInvariantUnderInputOrder ==
    call.op = "idle" =>
    \A f \in Permutations(1..Len(data)) :
        get_root(new([i \in 1..Len(data) |-> data[f[i]]]).layers) = Root

\* C3 as amended: the root (the whole tree) is the same for every
\* permutation of the leaf hashes hash_node(index, record) of the input.
C3_RootInvariantUnderLeafHashOrder ==
    LET hs == leaf_hashes(data)
    IN  call.op = "idle" =>
        \A f \in Permutations(1..Len(hs)) :
            LET t == from_hashes([i \in 1..Len(hs) |-> hs[f[i]]])
            IN  /\ get_root(t.layers) = Root
                /\ t.elements = elements

\* three leaf hashes that are not in sorted order as hashed
C3_Witness ==
    /\ call.op = "get_root"
    /\ Len(data) = 3
    /\ leaf_hashes(data) # elements
    /\ IsSome(ret)

\* the input with every exact repeat of a record removed (the first
\* occurrence is kept)
RECURSIVE WithoutRepeats(_)
WithoutRepeats(d) ==
    IF d = <<>> THEN <<>>
    ELSE LET front == SubSeq(d, 1, Len(d) - 1)
             last == d[Len(d)]
         IN  IF last \in Range(front) THEN WithoutRepeats(front)
             ELSE Append(WithoutRepeats(front), last)

\* C4 as stated: the tree of the input and the tree of the input without
\* the exact repeats of a record have the same root.
C4_RootInvariantUnderRepeatedRecords ==
    call.op = "idle" => get_root(new(WithoutRepeats(data)).layers) = Root

\* C4 as amended: repeated leaf hashes collapse to one entry, so the root
\* is the same when a leaf hash of the input is repeated at any place of
\* the hash sequence; a record repeated at another input position is
\* another leaf, and the tree has one leaf per input record.
C4_RootInvariantUnderRepeatedLeafHashes ==
    LET hs == leaf_hashes(data)
    IN  /\ call.op = "idle" =>
              \A i \in 1..Len(hs), k \in 0..Len(hs) :
                  LET t == from_hashes(SubSeq(hs, 1, k) \o <<hs[i]>>
                                          \o SubSeq(hs, k + 1, Len(hs)))
                  IN  /\ get_root(t.layers) = Root
                      /\ t.elements = elements
        /\ leaves = Len(data)

\* an input with a repeated record
C4_Witness ==
    /\ call.op = "get_root"
    /\ \E i, j \in 1..Len(data) : i < j /\ data[i] = data[j]
    /\ IsSome(ret)
    /\ leaves = Len(data)

\* C5: a verify_proof call on a leaf and the root returns false when the
\* proof is the leaf's proof with one element replaced by another hash, or
\* a reordering of the leaf's proof that differs from it.
C5_TamperedProofFails ==
    (/\ call.op = "verify_proof"
     /\ call.element \in Leaves
     /\ IsSome(Root)
     /\ call.root = Unwrap(Root)
     /\ call.proof # ProofOf(call.element)
     /\ \/ DiffersInOnePlace(call.proof, ProofOf(call.element))
        \/ IsPermutationOf(call.proof, ProofOf(call.element)))
    => ret = FALSE

\* a two-element proof with its elements swapped
C5_Witness ==
    /\ call.op = "verify_proof"
    /\ call.element \in Leaves
    /\ call.root = Unwrap(Root)
    /\ Len(call.proof) = 2
    /\ call.proof # ProofOf(call.element)
    /\ IsPermutationOf(call.proof, ProofOf(call.element))
    /\ ret = FALSE

\* C6: get_root returns None exactly when the input was empty, and for a
\* non-empty input the only element of the last layer.
C6_RootAbsentIffEmptyInput ==
    /\ get_root(layers) = None <=> data = <<>>
    /\ data # <<>> =>
          /\ Len(layers[Len(layers)]) = 1
          /\ get_root(layers) = Some(layers[Len(layers)][1])
    /\ call.op = "get_root" =>
          /\ ret = None <=> data = <<>>
          /\ data # <<>> => ret = Some(layers[Len(layers)][1])

\* get_root on the tree of the empty input
C6_Witness ==
    /\ call.op = "get_root"
    /\ data = <<>>
    /\ ret = None

\* C7: the proof of a leaf is empty exactly when the leaf set has one
\* element, and the empty proof of the only leaf verifies.
C7_EmptyProofIffOneLeaf ==
    /\ call.op = "idle" =>
          /\ \A e \in Leaves : ProofOf(e) = <<>> <=> Len(elements) = 1
          /\ Len(elements) = 1 => verify_proof(elements[1], <<>>, Unwrap(Root))
    /\ (call.op = "get_proof" /\ call.element \in Leaves) =>
          /\ IsSome(ret)
          /\ Unwrap(ret) = <<>> <=> Len(elements) = 1

\* get_proof of the only leaf
C7_Witness ==
    /\ call.op = "get_proof"
    /\ Len(elements) = 1
    /\ call.element = elements[1]
    /\ ret = Some(<<>>)

Unpaired(pos) ==
    Cardinality({k \in 1..(Len(layers) - 1) :
        LET idx == pos \div (2 ^ (k - 1))
        IN  idx % 2 = 0 /\ idx + 1 >= Len(layers[k])})

\* C9 as stated: the proof of a leaf has as many elements as there are
\* layers below the root.
C9_ProofLenIsLayersBelowRoot ==
    (call.op = "get_proof" /\ call.element \in Leaves) =>
        Len(Unwrap(ret)) = Len(layers) - 1

\* C9 as amended: the proof of a leaf has one element per layer below the
\* root at which the node on the leaf's path has a sibling; it has as many
\* elements as there are layers below the root when no node on the path is
\* an unpaired last element, and fewer otherwise.
C9_ProofLenIsPairedLayers ==
    /\ call.op = "idle" =>
          \A i \in 1..Len(elements) :
              Len(ProofOf(elements[i])) = Len(layers) - 1 - Unpaired(i - 1)
    /\ (call.op = "get_proof" /\ call.element \in Leaves) =>
          Len(Unwrap(ret)) <= Len(layers) - 1

\* the promoted third leaf of three: two layers below the root, one
\* sibling
C9_Witness ==
    /\ call.op = "get_proof"
    /\ Len(elements) = 3
    /\ call.element = elements[3]
    /\ Len(layers) = 3
    /\ Len(Unwrap(ret)) = 1

\* C10 as stated: verify_proof against the root of the tree returns true
\* only for a hash of the leaf set.
C10_VerifyOnlyLeaves ==
    (/\ call.op = "verify_proof"
     /\ IsSome(Root)
     /\ call.root = Unwrap(Root)
     /\ ret = TRUE)
    => call.element \in Leaves
====
